---- MODULE Spec2Model ----
(***************************************************************************)
(* TalentFlow (local-first hiring pipeline): the optimistic mutation and   *)
(* reconciliation layer.  The persistent store (Dexie tables), the mock    *)
(* transport (MSW handlers with latency and injected failure), the query   *)
(* cache (TanStack Query client) and the page components' mutations.       *)
(*                                                                         *)
(* One module, several specifications over the same variables:             *)
(*   SpecReorder     the PATCH /api/jobs/reorder resolver run on db.jobs   *)
(*   SpecKanban      candidates board: stage changes by drag and drop      *)
(*   SpecCandidates  the board with navigation to the detail page          *)
(*   SpecDetail      the detail page: stage changes by button              *)
(*   Spec            jobs page: archive, drag-and-drop reorder, tabs       *)
(*   SpecJobForm     jobs page: creating and editing jobs                  *)
(*   SpecNotes       notes section: POST /api/notes sent with fetch()      *)
(*   SpecReorderOpen the reorder resolver with any integers as arguments   *)
(*   SpecReorderReload  the reorder resolver with page reloads             *)
(*   SpecCandidatePage  detail page: stage buttons and notes, no leaving   *)
(*   SpecApi         jobsApi and candidatesApi called directly             *)
(*   SpecSwr         dashboard, jobs and assessments pages; data ages      *)
(*   SpecSlug        jobs page: the job form with several titles           *)
(*   SpecSeed        initializeDatabase on page loads, from an empty store *)
(*   SpecReorderConcurrent  overlapping runs of the reorder resolver       *)
(*   SpecBuilder     assessment builder: sections added, deleted, dragged  *)
(*   SpecSearch      jobs page: drag-and-drop reorder under a search text  *)
(*   SpecForm        the assessment form: answers and submission           *)
(***************************************************************************)
EXTENDS Integers, Sequences, FiniteSets, TLC

VARIABLES
    jobs,        \* db.jobs: job id -> [status, order, title, slug]
    rh,          \* running instances of the reorder resolver: id -> frame
    candidates,  \* db.candidates: candidate id -> [stage, updatedAt]
    timeline,    \* db.timeline: the events in insertion order
    notes,       \* db.notes: the notes in insertion order
    now,         \* the clock new Date() reads
    cache,       \* queryClient: query key -> [has, data, stale, fetch, reply, raced, age]
    muts,        \* mutation cache: one record per mutate() call
    ui           \* router and component state: [page, id, activeTab, noteContent, ..]

vars == <<jobs, rh, candidates, timeline, notes, now, cache, muts, ui>>

dbCandVars == <<candidates, timeline, notes>>
clientVars == <<cache, muts, ui>>

----------------------------------------------------------------------------
(* Bounds *)

NumSeedJobs == 3
MaxReorders == 2
MaxCreated == 1

NumCandidates == 1
MaxMutations == 2

JobIds == 1..(NumSeedJobs + MaxCreated)
ReorderIds == 1..MaxReorders
CandIds == 1..NumCandidates
MutIds == 1..MaxMutations

\* STAGES, cut to the first three
Stages == <<"applied", "screen", "tech">>
StageSet == {Stages[i] : i \in DOMAIN Stages}
StageIndex(s) == CHOOSE i \in DOMAIN Stages : Stages[i] = s

----------------------------------------------------------------------------
(* Sequence helpers *)

Range(s) == {s[i] : i \in DOMAIN s}

RECURSIVE SeqFilter(_, _)
SeqFilter(s, keep) ==
    IF s = <<>> THEN <<>>
    ELSE IF Head(s) \in keep THEN <<Head(s)>> \o SeqFilter(Tail(s), keep)
         ELSE SeqFilter(Tail(s), keep)

----------------------------------------------------------------------------
(* Persistent store: db.jobs *)

\* Titles and slugs are sequences of characters
LowerOf == ("Q" :> "q") @@ ("A" :> "a") @@ ("J" :> "j") @@ ("D" :> "d") @@ ("E" :> "e")

\* String.prototype.toLowerCase
ToLowerCase(t) == [i \in DOMAIN t |-> IF t[i] \in DOMAIN LowerOf THEN LowerOf[t[i]] ELSE t[i]]

\* \s and \w of the regular expressions
Whitespace == {" "}
WordChars == {"q", "a", "j", "d", "e", "Q", "A", "J", "D", "E", "_"} \cup {ToString(n) : n \in 0..9}

RECURSIVE DropLeading(_, _)
DropLeading(t, cs) ==
    IF t # <<>> /\ Head(t) \in cs THEN DropLeading(Tail(t), cs) ELSE t

RECURSIVE DropTrailing(_, _)
DropTrailing(t, cs) ==
    IF t # <<>> /\ t[Len(t)] \in cs THEN DropTrailing(SubSeq(t, 1, Len(t) - 1), cs) ELSE t

\* String.prototype.trim
Trim(t) == DropTrailing(DropLeading(t, Whitespace), Whitespace)

\* replace(/[cs]+/g, by): every run of characters of cs becomes one by
RECURSIVE ReplaceRuns(_, _, _)
ReplaceRuns(t, cs, by) ==
    IF t = <<>> THEN <<>>
    ELSE IF Head(t) \in cs THEN <<by>> \o ReplaceRuns(DropLeading(t, cs), cs, by)
    ELSE <<Head(t)>> \o ReplaceRuns(Tail(t), cs, by)

\* seedDatabase: the title of seed job id is JOB_TITLES[id - 1], two words
\* here: one that differs for every job and the role, D for the Developer
\* titles ('Backend Developer', 'Full Stack Developer'), E for the others
\* ('Senior Frontend Engineer', 'DevOps Engineer', ..)
SeedTitle(id) == <<"J", ToString(id), " ", IF id \in {2, 3} THEN "D" ELSE "E">>

\* title.toLowerCase().replace(/\s+/g, '-') + '-' + faker.string.alphanumeric(6);
\* the six random characters are one element of the sequence
SeedSlug(id) == ReplaceRuns(ToLowerCase(SeedTitle(id)), Whitespace, "-") \o <<"-", "......">>

\* seedDatabase: job i gets order i; the status is drawn at random
SeedJobs(statusOf) ==
    [id \in 1..NumSeedJobs |-> [status |-> statusOf[id], order |-> id - 1,
                                title |-> SeedTitle(id), slug |-> SeedSlug(id)]]

\* db.jobs.orderBy('order').toArray(): ids sorted by (order, id)
RECURSIVE OrderByOrder(_, _)
OrderByOrder(tbl, ids) ==
    IF ids = {} THEN <<>>
    ELSE LET m == CHOOSE x \in ids : \A y \in ids :
                     \/ tbl[x].order < tbl[y].order
                     \/ (tbl[x].order = tbl[y].order /\ x <= y)
         IN  <<m>> \o OrderByOrder(tbl, ids \ {m})

\* the array the handlers work on: records with their id
JobsArray(tbl) ==
    LET ids == OrderByOrder(tbl, DOMAIN tbl)
    IN  [i \in DOMAIN ids |->
            [id |-> ids[i], status |-> tbl[ids[i]].status, order |-> tbl[ids[i]].order,
             title |-> tbl[ids[i]].title, slug |-> tbl[ids[i]].slug]]

\* db.jobs.update(id, changes): no record with that key, nothing written
DbUpdateOrder(tbl, id, o) ==
    IF id \in DOMAIN tbl THEN [tbl EXCEPT ![id].order = o] ELSE tbl

\* the order invariant of the collection: exactly {0..N-1}
Dense(tbl) ==
    /\ {tbl[id].order : id \in DOMAIN tbl} = 0..(Cardinality(DOMAIN tbl) - 1)
    /\ \A a, b \in DOMAIN tbl : tbl[a].order = tbl[b].order => a = b

----------------------------------------------------------------------------
(* PATCH /api/jobs/reorder resolver, one step per await *)

\* writes counts the db.jobs.update calls the request has issued so far
IdleFrame ==
    [pc |-> "idle", from |-> 0, to |-> 0, snap |-> <<>>, job |-> 0, i |-> 1, writes |-> 0]

RhActive(h) == rh[h].pc \notin {"idle", "done", "failed", "notfound"}

\* the request reaches the resolver: await simulateLatency()
ReorderArrive(h, from, to) ==
    /\ rh[h].pc = "idle"
    /\ rh' = [rh EXCEPT ![h] = [IdleFrame EXCEPT !.pc = "latency", !.from = from, !.to = to]]
    /\ UNCHANGED jobs

\* if (shouldSimulateError()) return 500
ReorderInjectError(h) ==
    /\ rh[h].pc = "latency"
    /\ rh' = [rh EXCEPT ![h].pc = "failed"]
    /\ UNCHANGED jobs

\* const jobs = await db.jobs.orderBy('order').toArray();
\* const job = jobs.find(j => j.order === fromOrder); if (!job) return 404
ReorderRead(h) ==
    /\ rh[h].pc = "latency"
    /\ LET snap == JobsArray(jobs)
           hit  == {k \in DOMAIN snap : snap[k].order = rh[h].from}
       IN  IF hit = {}
           THEN rh' = [rh EXCEPT ![h].pc = "notfound", ![h].snap = snap]
           ELSE rh' = [rh EXCEPT ![h].pc = "loop", ![h].snap = snap, ![h].i = 1,
                                 ![h].job = snap[CHOOSE k \in hit : \A l \in hit : k <= l].id]
    /\ UNCHANGED jobs

ShiftCondExclusive(j, from, to) ==
    IF from < to THEN j.order > from /\ j.order < to
                 ELSE j.order > to /\ j.order < from

\* the condition of the loop body for snapshot element j
ShiftCond(j, from, to) ==
    IF from < to THEN j.order > from /\ j.order <= to
                 ELSE j.order >= to /\ j.order < from

ShiftDeltaUp(from, to) == 1

\* -1 when moving down the list, +1 when moving up
ShiftDelta(from, to) == IF from < to THEN -1 ELSE 1

\* the next element of the snapshot, at or after position i, the loop updates
NextShift(f) == {k \in DOMAIN f.snap : k >= f.i /\ ShiftCond(f.snap[k], f.from, f.to)}

\* one await db.jobs.update(j.id, { order: j.order -/+ 1 }) of the loop
ReorderShift(h) ==
    /\ rh[h].pc = "loop"
    /\ NextShift(rh[h]) # {}
    /\ LET k == CHOOSE x \in NextShift(rh[h]) : \A y \in NextShift(rh[h]) : x <= y
           j == rh[h].snap[k]
       IN  /\ jobs' = DbUpdateOrder(jobs, j.id, j.order + ShiftDelta(rh[h].from, rh[h].to))
           /\ rh' = [rh EXCEPT ![h].i = k + 1, ![h].writes = @ + 1]

\* await db.jobs.update(job.id, { order: toOrder }); return { success: true }
ReorderPlace(h) ==
    /\ rh[h].pc = "loop"
    /\ NextShift(rh[h]) = {}
    /\ jobs' = DbUpdateOrder(jobs, rh[h].job, rh[h].to)
    /\ rh' = [rh EXCEPT ![h].pc = "done", ![h].writes = @ + 1]

\* the response has been delivered; the frame is gone
ReorderReturn(h) ==
    /\ rh[h].pc \in {"done", "failed", "notfound"}
    /\ rh' = [rh EXCEPT ![h] = IdleFrame]
    /\ UNCHANGED jobs

----------------------------------------------------------------------------
(* Persistent store: db.candidates, db.timeline *)

\* db.candidates.update(id, { stage, updatedAt })
DbUpdateStage(tbl, id, stage, t) ==
    IF id \in DOMAIN tbl THEN [tbl EXCEPT ![id] = [stage |-> stage, updatedAt |-> t]]
    ELSE tbl

\* an event with the two stages in each other's place
StageEventSwapped(id, from, to, t) ==
    [candidateId |-> id, type |-> "stage_change", fromStage |-> to, toStage |-> from,
     createdAt |-> t]

\* the stage_change event PATCH /api/candidates/:id adds
StageEvent(id, from, to, t) ==
    [candidateId |-> id, type |-> "stage_change", fromStage |-> from, toStage |-> to,
     createdAt |-> t]

----------------------------------------------------------------------------
(* GET resolvers: what a fetch of a query key reads from the store *)

PageSize == 20

KeyJobs(tab) == <<"jobs", tab>>
KeyCandAll == <<"candidates", "all">>
KeyCand(c) == <<"candidate", ToString(c)>>
KeyTimeline(c) == <<"candidate-timeline", ToString(c)>>
KeyNotes(c) == <<"notes", ToString(c)>>

Keys == {KeyJobs("active"), KeyJobs("archived"), KeyCandAll}
            \cup {KeyCand(c) : c \in CandIds} \cup {KeyTimeline(c) : c \in CandIds}
            \cup {KeyNotes(c) : c \in CandIds}

\* the :id a key was built with
KeyId(k) == CHOOSE c \in CandIds : ToString(c) = k[2]

Min(a, b) == IF a < b THEN a ELSE b

\* GET /api/jobs?status=..: sorted by order, filtered, first page
GetJobs(tbl, status) ==
    LET all  == JobsArray(tbl)
        kept == SeqFilter(all, {j \in Range(all) : j.status = status})
    IN  SubSeq(kept, 1, Min(Len(kept), PageSize))

\* GET /api/candidates/search without stage: every candidate, most recent
\* application first (appliedAt never changes: the model lists them by id)
GetCandidates(tbl) ==
    [c \in DOMAIN tbl |-> [id |-> c, stage |-> tbl[c].stage, updatedAt |-> tbl[c].updatedAt]]

\* GET /api/candidates/:id: { data: candidate }
GetCandidate(tbl, c) ==
    <<[id |-> c, stage |-> tbl[c].stage, updatedAt |-> tbl[c].updatedAt]>>

\* GET /api/candidates/:id/timeline and GET /api/notes/:candidateId: the
\* candidate's events or notes, latest first (those of one instant in reverse
\* insertion order)
RECURSIVE LatestFirst(_, _)
LatestFirst(tl, idx) ==
    IF idx = {} THEN <<>>
    ELSE LET m == CHOOSE x \in idx : \A y \in idx :
                     \/ tl[x].createdAt > tl[y].createdAt
                     \/ (tl[x].createdAt = tl[y].createdAt /\ x >= y)
         IN  <<tl[m]>> \o LatestFirst(tl, idx \ {m})

GetTimeline(tl, c) == LatestFirst(tl, {i \in DOMAIN tl : tl[i].candidateId = c})

QueryFn(k) ==
    IF k[1] = "jobs" THEN GetJobs(jobs, k[2])
    ELSE IF k[1] = "candidates" THEN GetCandidates(candidates)
    ELSE IF k[1] = "candidate" THEN GetCandidate(candidates, KeyId(k))
    ELSE IF k[1] = "notes" THEN GetTimeline(notes, KeyId(k))
    ELSE GetTimeline(timeline, KeyId(k))

----------------------------------------------------------------------------
(* Query client: cancelQueries, getQueryData, setQueryData, invalidateQueries *)

\* defaultOptions.queries.staleTime, in ms
StaleTime == 30000

\* stale: the entry has been invalidated; age: ms since its data was written,
\* counted up to StaleTime
EmptyEntry ==
    [has |-> FALSE, data |-> <<>>, stale |-> FALSE, fetch |-> "idle", reply |-> <<>>,
     raced |-> FALSE, age |-> 0]

\* an entry no older than a second stale time counts as fresh
IsStaleLate(e) == e.stale \/ e.age >= 2 * StaleTime

\* query.isStale(): invalidated, or dataUpdatedAt + staleTime has passed
IsStale(e) == e.stale \/ e.age >= StaleTime

Undefined == [has |-> FALSE, data |-> <<>>]
Defined(d) == [has |-> TRUE, data |-> d]

\* a query filter { queryKey } matches every key it is a prefix of
PartialMatch(filter, k) ==
    /\ Len(filter) <= Len(k)
    /\ SubSeq(k, 1, Len(filter)) = filter

\* the keys a mounted useQuery observes
Observed(k, u) ==
    \/ u.page = "jobs" /\ k = KeyJobs(u.activeTab)
    \/ u.page = "candidates" /\ k = KeyCandAll
    \/ u.page = "candidate" /\ k \in {KeyCand(u.id), KeyTimeline(u.id), KeyNotes(u.id)}
    \/ u.page = "dashboard" /\ k \in {KeyJobs("active"), KeyCandAll}
    \/ u.page = "assessments" /\ k = KeyJobs("active")

Fetching(c, filter) == {k \in Keys : PartialMatch(filter, k) /\ c[k].fetch # "idle"}

\* cancelQueries: the matching fetches are dropped and the entries keep their
\* state; the transport calls run on and their responses are discarded
CancelQueries(c, filter) ==
    [k \in Keys |->
        IF k \in Fetching(c, filter)
        THEN [c[k] EXCEPT !.fetch = "idle", !.reply = <<>>, !.raced = FALSE]
        ELSE c[k]]

GetQueryData(c, k) == [has |-> c[k].has, data |-> c[k].data]

\* setQueryData(key, value): undefined is ignored; otherwise the entry gets the
\* value and is fresh again; a running fetch is left alone.  raced (bookkeeping,
\* read by no handler) is set by the optimistic writers: the entry was written
\* while its fetch was under way
SetQueryData(c, k, v) ==
    IF v.has THEN [c EXCEPT ![k].has = TRUE, ![k].data = v.data, ![k].stale = FALSE,
                            ![k].age = 0]
    ELSE c

\* query.fetch(): the transport call starts
StartFetch(e) == [e EXCEPT !.fetch = "latency", !.reply = <<>>, !.raced = FALSE]

\* invalidateQueries({ queryKey }): every matching entry is marked stale, and
\* the observed ones are refetched
InvalidateQueries(c, filter, u) ==
    [k \in Keys |->
        IF ~PartialMatch(filter, k) THEN c[k]
        ELSE IF Observed(k, u) THEN StartFetch([c[k] EXCEPT !.stale = TRUE])
        ELSE [c[k] EXCEPT !.stale = TRUE]]

\* a useQuery observer mounts: it fetches unless the entry is fresh or a
\* fetch already runs
Mount(c, ks) ==
    [k \in Keys |->
        IF k \in ks /\ c[k].fetch = "idle" /\ (~c[k].has \/ IsStale(c[k]))
        THEN StartFetch(c[k]) ELSE c[k]]

\* the GET resolver has waited out its latency and reads the store
FetchServe(k) ==
    /\ cache[k].fetch = "latency"
    /\ cache' = [cache EXCEPT ![k].fetch = "replied", ![k].reply = QueryFn(k)]
    /\ UNCHANGED <<jobs, rh, dbCandVars, now, muts, ui>>

\* the response reaches the query: its data replaces the entry's
FetchDeliver(k) ==
    /\ cache[k].fetch = "replied"
    /\ cache' = [cache EXCEPT ![k] = [has |-> TRUE, data |-> cache[k].reply, stale |-> FALSE,
                                      fetch |-> "idle", reply |-> <<>>, raced |-> FALSE,
                                      age |-> 0]]
    /\ UNCHANGED <<jobs, rh, dbCandVars, now, muts, ui>>

----------------------------------------------------------------------------
(* Mutations *)

\* val, order, from, to, title and slug are the fields of the request body
\* ("", -1 and <<>>: the body has no such field)
IdleMut ==
    [kind |-> "none", phase |-> "idle", key |-> <<>>, id |-> 0, method |-> "",
     path |-> <<>>, val |-> "", order |-> -1, from |-> -1, to |-> -1, title |-> <<>>,
     slug |-> <<>>, ctx |-> Undefined, opt |-> <<>>, seen |-> "", over |-> 0, obs |-> FALSE]

\* the record of the next mutate() call
FreeMut(ms) == CHOOSE m \in MutIds : ms[m].phase = "idle" /\ \A n \in MutIds : n < m => ms[n].phase # "idle"

InFlight(m) == muts[m].phase \notin {"idle", "success", "error"}

\* the running mutation whose optimistic value a snapshot of key k holds, 0 if
\* none (bookkeeping, read by no handler)
Over(c, k) ==
    LET as == {a \in MutIds : InFlight(a) /\ muts[a].key = k /\ c[k].has
                               /\ c[k].data = muts[a].opt}
    IN  IF as = {} THEN 0 ELSE CHOOSE a \in as : \A b \in as : b <= a

\* leaving a page unmounts its useMutation observers
Unmounted(ms) == [m \in MutIds |-> [ms[m] EXCEPT !.obs = FALSE]]

----------------------------------------------------------------------------
(* CandidateKanbanBoard: updateStageMutation over PATCH /api/candidates/:id *)

\* the optimistic transform of onMutate
WithStage(data, id, stage, t) ==
    [i \in DOMAIN data |->
        IF data[i].id = id THEN [data[i] EXCEPT !.stage = stage, !.updatedAt = t] ELSE data[i]]

\* handleDragEnd, then onMutate: cancel, snapshot, optimistic write; the
\* request leaves
KanbanDrag(id, stage) ==
    /\ ui.page = "candidates"
    /\ \E m \in MutIds : muts[m].phase = "idle"
    /\ cache[KeyCandAll].has
    /\ \E i \in DOMAIN cache[KeyCandAll].data :
          /\ cache[KeyCandAll].data[i].id = id
          /\ cache[KeyCandAll].data[i].stage # stage
    /\ LET m   == FreeMut(muts)
           c1  == CancelQueries(cache, <<"candidates">>)
           ctx == GetQueryData(c1, KeyCandAll)
           opt == WithStage(ctx.data, id, stage, now)
       IN  /\ cache' = SetQueryData(c1, KeyCandAll, Defined(opt))
           /\ muts' = [muts EXCEPT ![m] = [IdleMut EXCEPT !.kind = "kanban", !.phase = "latency",
                                              !.key = KeyCandAll, !.id = id, !.val = stage,
                                              !.ctx = ctx, !.opt = opt, !.obs = TRUE,
                                              !.over = Over(c1, KeyCandAll)]]
    /\ UNCHANGED <<jobs, rh, dbCandVars, now, ui>>

\* CandidateDetailPage, a stage button: onMutate cancels, snapshots and
\* patches ['candidate', id]; the request leaves
WithStageOnly(data, stage) == [i \in DOMAIN data |-> [data[i] EXCEPT !.stage = stage]]

DetailStage(stage) ==
    /\ ui.page = "candidate"
    /\ cache[KeyCand(ui.id)].has
    /\ \A n \in MutIds : ~(muts[n].kind = "detail" /\ muts[n].obs /\ InFlight(n))
    /\ \E m \in MutIds : muts[m].phase = "idle"
    /\ LET m   == FreeMut(muts)
           k   == KeyCand(ui.id)
           c1  == CancelQueries(cache, k)
           ctx == GetQueryData(c1, k)
           opt == WithStageOnly(ctx.data, stage)
       IN  /\ cache' = SetQueryData(c1, k, Defined(opt))
           /\ muts' = [muts EXCEPT ![m] = [IdleMut EXCEPT !.kind = "detail", !.phase = "latency",
                                              !.key = k, !.id = ui.id, !.val = stage,
                                              !.ctx = ctx, !.opt = opt, !.obs = TRUE,
                                              !.over = Over(c1, k)]]
    /\ UNCHANGED <<jobs, rh, dbCandVars, now, ui>>

StageKinds == {"kanban", "detail"}

\* await simulateLatency() is over: the clock has moved on
MaxClock == 2 * MaxMutations

Tick(t) == Min(t + 1, MaxClock)

\* the failure decided after the timeline entry has been added
CandInjectErrorLate(m) ==
    /\ muts[m].kind \in StageKinds /\ muts[m].phase \in {"latency", "logged"}
    /\ muts' = [muts EXCEPT ![m].phase = "r500"]
    /\ now' = Tick(now)
    /\ UNCHANGED <<jobs, rh, dbCandVars, cache, ui>>

\* if (shouldSimulateError()) return 500
CandInjectError(m) ==
    /\ muts[m].kind \in StageKinds /\ muts[m].phase = "latency"
    /\ muts' = [muts EXCEPT ![m].phase = "r500"]
    /\ now' = Tick(now)
    /\ UNCHANGED <<jobs, rh, dbCandVars, cache, ui>>

\* const candidate = await db.candidates.get(id); if (!candidate) return 404
CandGet(m) ==
    /\ muts[m].kind \in StageKinds /\ muts[m].phase = "latency"
    /\ now' = Tick(now)
    /\ IF muts[m].id \in DOMAIN candidates
       THEN muts' = [muts EXCEPT ![m].phase = "got", ![m].seen = candidates[muts[m].id].stage]
       ELSE muts' = [muts EXCEPT ![m].phase = "r404"]
    /\ UNCHANGED <<jobs, rh, dbCandVars, cache, ui>>

\* if (updates.stage && updates.stage !== candidate.stage) await db.timeline.add(..)
CandLog(m) ==
    /\ muts[m].kind \in StageKinds /\ muts[m].phase = "got"
    /\ muts[m].val # muts[m].seen
    /\ timeline' = Append(timeline, StageEvent(muts[m].id, muts[m].seen, muts[m].val, now))
    /\ muts' = [muts EXCEPT ![m].phase = "logged"]
    /\ UNCHANGED <<jobs, rh, candidates, notes, now, cache, ui>>

\* await db.candidates.update(id, { ...updates, updatedAt }); the record is
\* read back and returned
CandUpdate(m) ==
    /\ muts[m].kind \in StageKinds
    /\ \/ muts[m].phase = "logged"
       \/ muts[m].phase = "got" /\ muts[m].val = muts[m].seen
    /\ candidates' = DbUpdateStage(candidates, muts[m].id, muts[m].val, now)
    /\ muts' = [muts EXCEPT ![m].phase = "r200"]
    /\ UNCHANGED <<jobs, rh, timeline, notes, now, cache, ui>>

\* onSuccess: invalidateQueries({ queryKey: ['candidates'] })
KanbanOnSuccess(m) ==
    /\ muts[m].kind = "kanban" /\ muts[m].phase = "r200"
    /\ muts' = [muts EXCEPT ![m].phase = "success"]
    /\ cache' = InvalidateQueries(cache, <<"candidates">>, ui)
    /\ UNCHANGED <<jobs, rh, dbCandVars, now, ui>>

\* a rollback to the store's value instead of the snapshot
KanbanOnErrorToStore(m) ==
    /\ muts[m].kind = "kanban" /\ muts[m].phase \in {"r500", "r404"}
    /\ cache' = SetQueryData(cache, KeyCandAll, Defined(QueryFn(KeyCandAll)))
    /\ muts' = [muts EXCEPT ![m].phase = "error"]
    /\ UNCHANGED <<jobs, rh, dbCandVars, now, ui>>

\* fetchApi throws on !response.ok; onError: setQueryData(['candidates','all'],
\* context.previousCandidates), then the error toast
KanbanOnError(m) ==
    /\ muts[m].kind = "kanban" /\ muts[m].phase \in {"r500", "r404"}
    /\ cache' = SetQueryData(cache, KeyCandAll, muts[m].ctx)
    /\ muts' = [muts EXCEPT ![m].phase = "error"]
    /\ UNCHANGED <<jobs, rh, dbCandVars, now, ui>>

\* CandidateDetailPage onSuccess: invalidateQueries on ['candidate', id],
\* ['candidate-timeline', id] and ['candidates']
DetailOnSuccess(m) ==
    /\ muts[m].kind = "detail" /\ muts[m].phase = "r200"
    /\ muts' = [muts EXCEPT ![m].phase = "success"]
    /\ LET c1 == InvalidateQueries(cache, KeyCand(muts[m].id), ui)
           c2 == InvalidateQueries(c1, KeyTimeline(muts[m].id), ui)
       IN  cache' = InvalidateQueries(c2, <<"candidates">>, ui)
    /\ UNCHANGED <<jobs, rh, dbCandVars, now, ui>>

\* CandidateDetailPage onError: setQueryData(['candidate', id],
\* context.previousData), then the error toast
DetailOnError(m) ==
    /\ muts[m].kind = "detail" /\ muts[m].phase \in {"r500", "r404"}
    /\ cache' = SetQueryData(cache, KeyCand(muts[m].id), muts[m].ctx)
    /\ muts' = [muts EXCEPT ![m].phase = "error"]
    /\ UNCHANGED <<jobs, rh, dbCandVars, now, ui>>

\* the card's <Link to={`/candidates/${candidate.id}`}>: the detail page mounts
\* (its NotesSection and the ['notes', id] query are followed in SpecNotes)
OpenCandidate(c) ==
    /\ ui.page = "candidates"
    /\ cache[KeyCandAll].has
    /\ \E i \in DOMAIN cache[KeyCandAll].data : cache[KeyCandAll].data[i].id = c
    /\ ui' = [ui EXCEPT !.page = "candidate", !.id = c]
    /\ muts' = Unmounted(muts)
    /\ cache' = Mount(cache, {KeyCand(c), KeyTimeline(c)})
    /\ UNCHANGED <<jobs, rh, dbCandVars, now>>

\* <Link to="/candidates">: the candidates page mounts
BackToCandidates ==
    /\ ui.page = "candidate"
    /\ ui' = [ui EXCEPT !.page = "candidates", !.id = 0]
    /\ muts' = Unmounted(muts)
    /\ cache' = Mount(cache, {KeyCandAll})
    /\ UNCHANGED <<jobs, rh, dbCandVars, now>>

----------------------------------------------------------------------------
(* MSW: the first handler of the list that matches the request resolves it *)

Handlers ==
    << [method |-> "GET",   path |-> <<"api", "jobs">>],
       [method |-> "GET",   path |-> <<"api", "jobs", ":id">>],
       [method |-> "POST",  path |-> <<"api", "jobs">>],
       [method |-> "PATCH", path |-> <<"api", "jobs", ":id">>],
       [method |-> "PATCH", path |-> <<"api", "jobs", "reorder">>] >>

PatchJob == [method |-> "PATCH", path |-> <<"api", "jobs", ":id">>]
PostJob == [method |-> "POST", path |-> <<"api", "jobs">>]

Matches(h, method, path) ==
    /\ h.method = method
    /\ Len(h.path) = Len(path)
    /\ \A i \in DOMAIN path : h.path[i] = path[i] \/ h.path[i] = ":id"

Resolver(method, path) ==
    LET hit == {i \in DOMAIN Handlers : Matches(Handlers[i], method, path)}
    IN  Handlers[CHOOSE i \in hit : \A j \in hit : i <= j]

\* params.id as a key of db.jobs: 0 when no job has that key
ParamId(seg) ==
    IF \E j \in JobIds : ToString(j) = seg THEN CHOOSE j \in JobIds : ToString(j) = seg
    ELSE 0

\* an update that leaves the status as it is
DbUpdateJobOrderOnly(tbl, id, m) ==
    IF id \in DOMAIN tbl
    THEN [tbl EXCEPT ![id].order = IF m.order = -1 THEN tbl[id].order ELSE m.order]
    ELSE tbl

\* db.jobs.update(id, { ...updates }): the fields of the body that a job has
DbUpdateJob(tbl, id, m) ==
    IF id \in DOMAIN tbl
    THEN [tbl EXCEPT ![id] = [title  |-> IF m.title = <<>> THEN tbl[id].title ELSE m.title,
                              slug   |-> IF m.title = <<>> THEN tbl[id].slug ELSE m.slug,
                              status |-> IF m.val = "" THEN tbl[id].status ELSE m.val,
                              order  |-> IF m.order = -1 THEN tbl[id].order ELSE m.order]]
    ELSE tbl

\* db.jobs.add({ ...body, id: crypto.randomUUID() })
DbAddJob(tbl, m) ==
    [id \in DOMAIN tbl \cup {Cardinality(DOMAIN tbl) + 1} |->
        IF id \in DOMAIN tbl THEN tbl[id]
        ELSE [status |-> m.val, order |-> m.order, title |-> m.title, slug |-> m.slug]]

JobKinds == {"archive", "reorder", "create", "update"}

\* PATCH /api/jobs/:id: if (shouldSimulateError()) return 500
\* POST /api/jobs: the same
JobInjectError(m) ==
    /\ muts[m].kind \in JobKinds /\ muts[m].phase = "latency"
    /\ muts' = [muts EXCEPT ![m].phase = "r500"]
    /\ now' = Tick(now)
    /\ UNCHANGED <<jobs, rh, dbCandVars, cache, ui>>

\* PATCH /api/jobs/:id: await db.jobs.update(id, { ...updates, updatedAt });
\* the record is read back and returned with status 200
JobPatch(m) ==
    /\ muts[m].kind \in JobKinds /\ muts[m].phase = "latency"
    /\ Resolver(muts[m].method, muts[m].path) = PatchJob
    /\ jobs' = DbUpdateJob(jobs, ParamId(muts[m].path[3]), muts[m])
    /\ muts' = [muts EXCEPT ![m].phase = "r200"]
    /\ now' = Tick(now)
    /\ UNCHANGED <<rh, dbCandVars, cache, ui>>

\* POST /api/jobs: await db.jobs.add(job); return { data: job }
JobPost(m) ==
    /\ muts[m].kind \in JobKinds /\ muts[m].phase = "latency"
    /\ Resolver(muts[m].method, muts[m].path) = PostJob
    /\ jobs' = DbAddJob(jobs, muts[m])
    /\ muts' = [muts EXCEPT ![m].phase = "r200", ![m].id = Cardinality(DOMAIN jobs) + 1]
    /\ now' = Tick(now)
    /\ UNCHANGED <<rh, dbCandVars, cache, ui>>

----------------------------------------------------------------------------
(* JobsPage: archive, reorder, create and update mutations; tabs *)

\* the cards on screen: jobsData?.data || [] (empty search box)
ShownJobs == IF cache[KeyJobs(ui.activeTab)].has THEN cache[KeyJobs(ui.activeTab)].data ELSE <<>>

\* String.prototype.includes
Includes(t, q) ==
    \E i \in 0..(Len(t) - Len(q)) : SubSeq(t, i + 1, i + Len(q)) = q

\* filteredJobs: the jobs whose title contains the search text, letter case
\* aside (the search texts of the model are words of titles, which no tag
\* holds)
MatchesSearch(j) == Includes(ToLowerCase(j.title), ToLowerCase(ui.searchQuery))

FilteredJobs == SeqFilter(ShownJobs, {j \in Range(ShownJobs) : MatchesSearch(j)})

\* old.data.filter(job => job.id !== id)
WithoutJob(data, id) == SeqFilter(data, {j \in Range(data) : j.id # id})

\* onArchive, then archiveMutation.onMutate: cancel, snapshot and filter
\* ['jobs', activeTab]; the request leaves
Archive(i) ==
    /\ ui.page = "jobs"
    /\ i \in DOMAIN ShownJobs
    /\ \E m \in MutIds : muts[m].phase = "idle"
    /\ LET m   == FreeMut(muts)
           job == ShownJobs[i]
           k   == KeyJobs(ui.activeTab)
           c1  == CancelQueries(cache, <<"jobs">>)
           ctx == GetQueryData(c1, k)
           opt == WithoutJob(ctx.data, job.id)
       IN  /\ cache' = SetQueryData(c1, k, Defined(opt))
           /\ muts' = [muts EXCEPT ![m] =
                  [IdleMut EXCEPT !.kind = "archive", !.phase = "latency", !.key = k,
                                  !.id = job.id, !.method = "PATCH",
                                  !.path = <<"api", "jobs", ToString(job.id)>>,
                                  !.val = IF job.status = "active" THEN "archived" ELSE "active",
                                  !.ctx = ctx, !.opt = opt, !.obs = TRUE, !.over = Over(c1, k)]]
    /\ UNCHANGED <<jobs, rh, dbCandVars, now, ui>>

\* archiveMutation.onSuccess: invalidateQueries({ queryKey: ['jobs'] })
\* (also createJobMutation, updateJobMutation and reorderMutation onSuccess)
JobOnSuccess(m) ==
    /\ muts[m].kind \in JobKinds /\ muts[m].phase = "r200"
    /\ muts' = [muts EXCEPT ![m].phase = "success"]
    /\ cache' = InvalidateQueries(cache, <<"jobs">>, ui)
    /\ UNCHANGED <<jobs, rh, dbCandVars, now, ui>>

\* archiveMutation.onError: setQueryData(['jobs', activeTab],
\* context.previousJobs) with the tab of the current render, then the toast
ArchiveOnError(m) ==
    /\ muts[m].kind = "archive" /\ muts[m].phase = "r500"
    /\ cache' = SetQueryData(cache, KeyJobs(ui.activeTab), muts[m].ctx)
    /\ muts' = [muts EXCEPT ![m].phase = "error"]
    /\ UNCHANGED <<jobs, rh, dbCandVars, now, ui>>

\* arrayMove(items, from, to)
ArrayMove(items, from, to) ==
    LET rest == [k \in 1..(Len(items) - 1) |-> IF k < from THEN items[k] ELSE items[k + 1]]
    IN  [k \in DOMAIN items |->
            IF k < to THEN rest[k] ELSE IF k = to THEN items[from] ELSE rest[k - 1]]

\* handleDragEnd: the reordered cards, those of filteredJobs, are written to
\* ['jobs', activeTab] and
\* reorderMutation.mutate({ fromOrder, toOrder }) sends PATCH /api/jobs/reorder
DragEnd(i, j) ==
    /\ ui.page = "jobs"
    /\ i \in DOMAIN FilteredJobs /\ j \in DOMAIN FilteredJobs /\ i # j
    /\ \E m \in MutIds : muts[m].phase = "idle"
    /\ LET m   == FreeMut(muts)
           k   == KeyJobs(ui.activeTab)
           opt == ArrayMove(FilteredJobs, i, j)
           c1  == SetQueryData(cache, k, Defined(opt))
       IN  /\ cache' = [c1 EXCEPT ![k].raced = cache[k].raced \/ cache[k].fetch # "idle"]
           /\ muts' = [muts EXCEPT ![m] =
                  [IdleMut EXCEPT !.kind = "reorder", !.phase = "latency", !.key = k,
                                  !.method = "PATCH", !.path = <<"api", "jobs", "reorder">>,
                                  !.from = FilteredJobs[i].order, !.to = FilteredJobs[j].order,
                                  !.ctx = GetQueryData(cache, k), !.opt = opt, !.obs = TRUE]]
    /\ UNCHANGED <<jobs, rh, dbCandVars, now, ui>>

\* reorderMutation.onError: invalidateQueries({ queryKey: ['jobs'] }), then
\* the toast
ReorderOnError(m) ==
    /\ muts[m].kind = "reorder" /\ muts[m].phase = "r500"
    /\ muts' = [muts EXCEPT ![m].phase = "error"]
    /\ cache' = InvalidateQueries(cache, <<"jobs">>, ui)
    /\ UNCHANGED <<jobs, rh, dbCandVars, now, ui>>

\* Tabs onValueChange: setActiveTab; the observer moves to ['jobs', tab]
SwitchTab(tab) ==
    /\ ui.page = "jobs"
    /\ tab # ui.activeTab
    /\ ui' = [ui EXCEPT !.activeTab = tab]
    /\ cache' = Mount(cache, {KeyJobs(tab)})
    /\ UNCHANGED <<jobs, rh, dbCandVars, now, muts>>

\* Math.max(...jobs.map(j => j.order), 0)
RECURSIVE MaxOrder(_)
MaxOrder(data) ==
    IF data = <<>> THEN 0
    ELSE IF Head(data).order > MaxOrder(Tail(data)) THEN Head(data).order
         ELSE MaxOrder(Tail(data))

\* db.jobs plus the POST requests under way stay within JobIds
CanCreate ==
    Cardinality(DOMAIN jobs)
        + Cardinality({m \in MutIds : muts[m].kind = "create" /\ InFlight(m)}) < Cardinality(JobIds)

\* generateSlug: lower case, trimmed, without the characters that are neither
\* word characters, whitespace nor dashes, every run of whitespace,
\* underscores and dashes one dash, no dash at either end
GenerateSlug(title) ==
    LET trimmed == Trim(ToLowerCase(title))
        kept    == SeqFilter(trimmed, WordChars \cup Whitespace \cup {"-"})
        dashed  == ReplaceRuns(kept, Whitespace \cup {"_", "-"}, "-")
    IN  DropTrailing(DropLeading(dashed, {"-"}), {"-"})

\* what is typed into the form's title field (jobSchema: 1 to 100 characters)
FormTitles == {<<"Q", "A">>, <<"q", "a", "!">>, <<" ", "q", "_", " ", "a">>}

\* JobFormDialog.handleSubmit without job: slug generateSlug(title), status
\* 'active', order maxOrder + 1; createJobMutation.mutate(data)
CreateJob(title) ==
    /\ ui.page = "jobs"
    /\ CanCreate
    /\ \E m \in MutIds : muts[m].phase = "idle"
    /\ muts' = [muts EXCEPT ![FreeMut(muts)] =
          [IdleMut EXCEPT !.kind = "create", !.phase = "latency", !.method = "POST",
                          !.path = <<"api", "jobs">>, !.val = "active",
                          !.title = title, !.slug = GenerateSlug(title),
                          !.order = MaxOrder(ShownJobs) + 1, !.obs = TRUE]]
    /\ UNCHANGED <<jobs, rh, dbCandVars, now, cache, ui>>

\* onEdit and JobFormDialog.handleSubmit with job: the title is the job's or
\* a new one, slug generateSlug(title), status 'active', order job.order;
\* updateJobMutation.mutate({ id, data })
EditJob(i, title) ==
    /\ ui.page = "jobs"
    /\ i \in DOMAIN ShownJobs
    /\ title \in FormTitles \cup {ShownJobs[i].title}
    /\ \E m \in MutIds : muts[m].phase = "idle"
    /\ muts' = [muts EXCEPT ![FreeMut(muts)] =
          [IdleMut EXCEPT !.kind = "update", !.phase = "latency", !.method = "PATCH",
                          !.id = ShownJobs[i].id,
                          !.path = <<"api", "jobs", ToString(ShownJobs[i].id)>>,
                          !.val = "active", !.title = title, !.slug = GenerateSlug(title),
                          !.order = ShownJobs[i].order, !.obs = TRUE]]
    /\ UNCHANGED <<jobs, rh, dbCandVars, now, cache, ui>>

\* createJobMutation.onError, updateJobMutation.onError: the toast
FormOnError(m) ==
    /\ muts[m].kind \in {"create", "update"} /\ muts[m].phase = "r500"
    /\ muts' = [muts EXCEPT ![m].phase = "error"]
    /\ UNCHANGED <<jobs, rh, dbCandVars, now, cache, ui>>

----------------------------------------------------------------------------
(* NotesSection: addNoteMutation over POST /api/notes, sent with fetch() *)

NoteTexts == {"", "a"}

\* Textarea onChange: setNoteContent(e.target.value)
TypeNote(text) ==
    /\ ui.page = "candidate"
    /\ text # ui.noteContent
    /\ ui' = [ui EXCEPT !.noteContent = text]
    /\ UNCHANGED <<jobs, rh, dbCandVars, now, cache, muts>>

\* handleSubmit: if (noteContent.trim()) addNoteMutation.mutate(noteContent);
\* the button is disabled while the mutation is pending
SubmitNote ==
    /\ ui.page = "candidate"
    /\ ui.noteContent # ""
    /\ \A n \in MutIds : ~(muts[n].kind = "note" /\ muts[n].obs /\ InFlight(n))
    /\ \E m \in MutIds : muts[m].phase = "idle"
    /\ muts' = [muts EXCEPT ![FreeMut(muts)] =
          [IdleMut EXCEPT !.kind = "note", !.phase = "latency", !.id = ui.id,
                          !.method = "POST", !.path = <<"api", "notes">>,
                          !.val = ui.noteContent, !.obs = TRUE]]
    /\ UNCHANGED <<jobs, rh, dbCandVars, now, cache, ui>>

\* POST /api/notes: if (shouldSimulateError()) return 500
NoteInjectError(m) ==
    /\ muts[m].kind = "note" /\ muts[m].phase = "latency"
    /\ muts' = [muts EXCEPT ![m].phase = "r500"]
    /\ now' = Tick(now)
    /\ UNCHANGED <<jobs, rh, dbCandVars, cache, ui>>

\* await db.notes.add(note)
NoteAdd(m) ==
    /\ muts[m].kind = "note" /\ muts[m].phase = "latency"
    /\ notes' = Append(notes, [candidateId |-> muts[m].id, content |-> muts[m].val,
                               createdAt |-> Tick(now)])
    /\ muts' = [muts EXCEPT ![m].phase = "added"]
    /\ now' = Tick(now)
    /\ UNCHANGED <<jobs, rh, candidates, timeline, cache, ui>>

\* await db.timeline.add({ type: 'note', .. }); return { data: note }
NoteLog(m) ==
    /\ muts[m].kind = "note" /\ muts[m].phase = "added"
    /\ timeline' = Append(timeline, [candidateId |-> muts[m].id, type |-> "note",
                                     fromStage |-> "", toStage |-> "", createdAt |-> now])
    /\ muts' = [muts EXCEPT ![m].phase = "r200"]
    /\ UNCHANGED <<jobs, rh, candidates, notes, now, cache, ui>>

\* mutationFn returns response.json() whatever response.ok is, so the
\* mutation resolves on every answer; onSuccess: invalidateQueries on
\* ['notes', candidateId] and ['timeline', candidateId], setNoteContent('')
NoteOnSuccess(m) ==
    /\ muts[m].kind = "note" /\ muts[m].phase \in {"r200", "r500"}
    /\ muts' = [muts EXCEPT ![m].phase = "success"]
    /\ cache' = InvalidateQueries(InvalidateQueries(cache, KeyNotes(muts[m].id), ui),
                                  <<"timeline", ToString(muts[m].id)>>, ui)
    /\ ui' = [ui EXCEPT !.noteContent = ""]
    /\ UNCHANGED <<jobs, rh, dbCandVars, now>>

----------------------------------------------------------------------------
(* SpecReorder: requests handed to the reorder resolver one at a time, with
   fromOrder and toOrder inside [0, N-1] *)

ValidOrders == 0..(NumSeedJobs - 1)

AllActive == [id \in 1..NumSeedJobs |-> "active"]

\* seedDatabase: every candidate gets one of the stages
SeedCandidates(stageOf) == [c \in CandIds |-> [stage |-> stageOf[c], updatedAt |-> 0]]

\* seedDatabase: 'Application submitted', then one event per stage passed, all
\* dated in the past
SeedEvents(c, stage) ==
    [j \in 1..StageIndex(stage) |->
        IF j = 1 THEN [candidateId |-> c, type |-> "stage_change", fromStage |-> "",
                       toStage |-> "applied", createdAt |-> 0 - Len(Stages)]
        ELSE StageEvent(c, Stages[j - 1], Stages[j], j - 1 - Len(Stages))]

RECURSIVE SeedTimeline(_, _)
SeedTimeline(stageOf, n) ==
    IF n = 0 THEN <<>> ELSE SeedTimeline(stageOf, n - 1) \o SeedEvents(n, stageOf[n])

AllApplied == [c \in CandIds |-> "applied"]

\* searchQuery: the search box of JobsPage, empty at first
\* questions, answers, visibleQuestions, errors: the props and state of
\* InteractiveAssessmentForm; submits: how often its onSubmit was invoked
\* sections and sectionsAdded: the state of AssessmentBuilderPage (the
\* sections on screen; how many ids crypto.randomUUID has handed out)
JobsUi ==
    [page |-> "jobs", id |-> 0, activeTab |-> "active", noteContent |-> "",
     sections |-> <<>>, sectionsAdded |-> 0, searchQuery |-> <<>>,
     questions |-> <<>>, answers |-> <<>>, visibleQuestions |-> {}, errors |-> <<>>,
     submits |-> 0]

InitReorder ==
    /\ jobs = SeedJobs(AllActive)
    /\ rh = [h \in ReorderIds |-> IdleFrame]
    /\ candidates = SeedCandidates(AllApplied)
    /\ timeline = SeedTimeline(AllApplied, NumCandidates)
    /\ notes = <<>>
    /\ now = 0
    /\ cache = [k \in Keys |-> EmptyEntry]
    /\ muts = [m \in MutIds |-> IdleMut]
    /\ ui = JobsUi

ReorderSteps(h) ==
    \/ ReorderInjectError(h)
    \/ ReorderRead(h)
    \/ ReorderShift(h)
    \/ ReorderPlace(h)
    \/ ReorderReturn(h)

NextReorder ==
    \/ \E h \in ReorderIds, from \in ValidOrders, to \in ValidOrders :
          /\ \A g \in ReorderIds : rh[g].pc = "idle"
          /\ ReorderArrive(h, from, to)
          /\ UNCHANGED <<dbCandVars, now, clientVars>>
    \/ \E h \in ReorderIds : ReorderSteps(h) /\ UNCHANGED <<dbCandVars, now, clientVars>>

SpecReorder == InitReorder /\ [][NextReorder]_vars

\* order of job id in a resolver's snapshot
SnapOrder(f, id) ==
    LET k == CHOOSE x \in DOMAIN f.snap : f.snap[x].id = id IN f.snap[k].order

\* what section 4.5 prescribes for a member whose order was o
Reindexed(o, from, to) ==
    IF o = from THEN to
    ELSE IF from < to /\ o > from /\ o <= to THEN o - 1
    ELSE IF from > to /\ o >= to /\ o < from THEN o + 1
    ELSE o

\* C8: with requests processed one at a time and valid arguments, whenever no
\* resolver is between its first and its last store write, the orders of
\* db.jobs are exactly {0..N-1}, without duplicates or gaps.
C8_DenseAfterCommittedReorders ==
    (\A h \in ReorderIds : rh[h].pc # "loop") => Dense(jobs)

C8_Witness ==
    \E h \in ReorderIds :
        /\ rh[h].pc = "done"
        /\ rh[h].from # rh[h].to
        /\ \E id \in DOMAIN jobs : jobs[id].order # id - 1
        /\ \E k \in DOMAIN rh[h].snap : rh[h].snap[k].order # rh[h].snap[k].id - 1

\* C10: the store write that completes a reorder with fromOrder # toOrder
\* leaves the moved member's order at toOrder, every member that was between
\* the two positions shifted by one towards fromOrder, and every other
\* member's order as the resolver read it.
C10_ReorderAlgorithm ==
    [][\A h \in ReorderIds :
          (rh[h].pc = "loop" /\ rh'[h].pc = "done" /\ rh[h].from # rh[h].to) =>
              /\ DOMAIN jobs' = {rh[h].snap[k].id : k \in DOMAIN rh[h].snap}
              /\ \A id \in DOMAIN jobs' :
                    jobs'[id].order =
                        Reindexed(SnapOrder(rh[h], id), rh[h].from, rh[h].to)]_vars

C10_Witness ==
    \E h \in ReorderIds :
        /\ rh[h].pc = "done"
        /\ rh[h].from = NumSeedJobs - 1
        /\ rh[h].to = 1
        /\ \A id \in DOMAIN jobs :
              jobs[id].order = (IF SnapOrder(rh[h], id) = rh[h].from THEN 1
                                ELSE IF SnapOrder(rh[h], id) = 0 THEN 0
                                ELSE SnapOrder(rh[h], id) + 1)

\* C11: a reorder request with fromOrder = toOrder that is answered with
\* success has issued no write to db.jobs.
C11_SamePositionWritesNothing ==
    \A h \in ReorderIds :
        (rh[h].pc = "done" /\ rh[h].from = rh[h].to) => rh[h].writes = 0

----------------------------------------------------------------------------
(* SpecReorderOpen: reorder requests with any integers as arguments, one at *)
(* a time. SpecReorderReload: valid arguments, and page reloads that end a  *)
(* running resolver                                                         *)

\* fromOrder and toOrder are read from the request body without any check
AnyOrders == -1..NumSeedJobs

\* a database seeded on every load
InitializeDatabaseAlways(tbl, statusOf) == SeedJobs(statusOf)

\* initializeDatabase: seeds when db.jobs is empty, else leaves the store;
\* statusOf is the statuses seedDatabase would draw
InitializeDatabase(tbl, statusOf) ==
    IF Cardinality(DOMAIN tbl) = 0 THEN SeedJobs(statusOf) ELSE tbl

\* the page is loaded or reloaded: the resolvers running in it are gone, the
\* store keeps every update already awaited, initializeApp runs; seedDatabase
\* fills the candidates and the timeline along with the jobs
Reload ==
    /\ rh' = [h \in ReorderIds |-> IdleFrame]
    /\ \E statusOf \in [1..NumSeedJobs -> {"active", "archived"}] :
          jobs' = InitializeDatabase(jobs, statusOf)
    /\ IF Cardinality(DOMAIN jobs) = 0
       THEN \E stageOf \in [CandIds -> StageSet] :
               /\ candidates' = SeedCandidates(stageOf)
               /\ timeline' = SeedTimeline(stageOf, NumCandidates)
               /\ notes' = notes
       ELSE UNCHANGED dbCandVars

NextReorderOpen ==
    \/ \E h \in ReorderIds, from \in AnyOrders, to \in AnyOrders :
          /\ \A g \in ReorderIds : rh[g].pc = "idle"
          /\ ReorderArrive(h, from, to)
          /\ UNCHANGED <<dbCandVars, now, clientVars>>
    \/ \E h \in ReorderIds : ReorderSteps(h) /\ UNCHANGED <<dbCandVars, now, clientVars>>

SpecReorderOpen == InitReorder /\ [][NextReorderOpen]_vars

NextReorderReload ==
    \/ NextReorder
    \/ Reload /\ UNCHANGED <<now, clientVars>>

SpecReorderReload == InitReorder /\ [][NextReorderReload]_vars

OutOfRange(o, tbl) == o < 0 \/ o > Cardinality(DOMAIN tbl) - 1

\* C12: no step of a reorder request whose fromOrder or toOrder lies outside
\* [0, N-1] changes db.jobs, and the request is never answered with success.
C12_OutOfRangeRejected ==
    [][\A h \in ReorderIds :
          (/\ rh[h].pc # "idle"
           /\ rh'[h] # rh[h]
           /\ OutOfRange(rh[h].from, jobs) \/ OutOfRange(rh[h].to, jobs)) =>
              /\ jobs' = jobs
              /\ rh'[h].pc # "done"]_vars

\* C13: while the orders of db.jobs are not exactly {0..N-1} and no reorder
\* is running, a reorder request that arrives never gets to the resolver's
\* update loop: it is answered with an error.
C13_RepairRequired ==
    [][\A h \in ReorderIds :
          (rh[h].pc = "latency" /\ ~Dense(jobs)) => rh'[h].pc # "loop"]_vars

----------------------------------------------------------------------------
(* SpecKanban: the candidates page stays mounted on the board view; its
   useQuery(['candidates','all']) has started the first fetch *)

InitKanban ==
    /\ jobs = SeedJobs(AllActive)
    /\ rh = [h \in ReorderIds |-> IdleFrame]
    /\ \E stageOf \in [CandIds -> StageSet] :
          /\ candidates = SeedCandidates(stageOf)
          /\ timeline = SeedTimeline(stageOf, NumCandidates)
    /\ notes = <<>>
    /\ now = 0
    /\ muts = [m \in MutIds |-> IdleMut]
    /\ cache = [k \in Keys |-> IF k = KeyCandAll THEN StartFetch(EmptyEntry) ELSE EmptyEntry]
    /\ ui = [JobsUi EXCEPT !.page = "candidates"]

\* the PATCH /api/candidates/:id resolver, step by step
CandSteps(m) ==
    \/ CandInjectError(m)
    \/ CandGet(m)
    \/ CandLog(m)
    \/ CandUpdate(m)

NextKanban ==
    \/ \E c \in CandIds, stage \in StageSet : KanbanDrag(c, stage)
    \/ \E m \in MutIds : CandSteps(m)
    \/ \E m \in MutIds : KanbanOnSuccess(m)
    \/ \E m \in MutIds : KanbanOnError(m)
    \/ \E k \in Keys : FetchServe(k)
    \/ \E k \in Keys : FetchDeliver(k)

SpecKanban == InitKanban /\ [][NextKanban]_vars

\* nothing in flight: no mutation between mutate() and its callbacks, no fetch
Quiescent(k) ==
    /\ \A m \in MutIds : ~InFlight(m)
    /\ cache[k].fetch = "idle"

\* C1: once no mutation and no fetch is in flight, the value cached under
\* ['candidates','all'] (and under ['jobs', tab]) equals what the store would
\* answer to the same query.
C1_Convergence ==
    \A k \in {KeyCandAll, KeyJobs("active"), KeyJobs("archived")} :
        (Quiescent(k) /\ cache[k].has) => cache[k].data = QueryFn(k)

\* the rollback that ends B while A's optimistic value is what B had snapshotted
OverlappedRollback(b) ==
    /\ muts[b].kind = "kanban"
    /\ muts[b].phase \in {"r500", "r404"}
    /\ muts'[b].phase = "error"
    /\ muts[b].over # 0

\* C7: when Kanban mutation B was started while mutation A was in flight on
\* the same entry, B's snapshot is the entry as A's optimistic write left it,
\* and B's rollback leaves the entry at that value, A's optimistic value
\* included, whatever the store holds.
C7_TieBreak ==
    [][\A b \in MutIds :
          OverlappedRollback(b) =>
              /\ muts[b].ctx = Defined(muts[muts[b].over].opt)
              /\ cache'[KeyCandAll].has
              /\ cache'[KeyCandAll].data = muts[muts[b].over].opt]_vars

C7_Witness ==
    \E b \in MutIds :
        /\ muts[b].kind = "kanban"
        /\ muts[b].phase = "error"
        /\ muts[b].over # 0
        /\ cache[KeyCandAll].data = muts[muts[b].over].opt
        /\ cache[KeyCandAll].data # QueryFn(KeyCandAll)
        /\ muts[muts[b].over].phase = "error"

----------------------------------------------------------------------------
(* SpecCandidates: the candidates board and the candidate detail page, with
   navigation between them; stages are changed on the board *)

NextCandidates ==
    \/ \E c \in CandIds, stage \in StageSet : KanbanDrag(c, stage)
    \/ \E m \in MutIds : CandSteps(m)
    \/ \E m \in MutIds : KanbanOnSuccess(m)
    \/ \E m \in MutIds : KanbanOnError(m)
    \/ \E c \in CandIds : OpenCandidate(c)
    \/ BackToCandidates
    \/ \E k \in Keys : FetchServe(k)
    \/ \E k \in Keys : FetchDeliver(k)

SpecCandidates == InitKanban /\ [][NextCandidates]_vars

\* the step in which a Kanban mutation's onSuccess runs
KanbanCommits(m) ==
    /\ muts[m].kind = "kanban"
    /\ muts[m].phase = "r200"
    /\ muts'[m].phase = "success"

\* C6: when a Kanban stage change succeeds, every cached entry that holds the
\* written candidate, ['candidates', *], ['candidate', id] and
\* ['candidate-timeline', id], is marked stale or refetched; checked on the
\* entries whose value the store no longer answers.
C6_SuccessMarksAffectedKeys ==
    [][\A m \in MutIds :
          KanbanCommits(m) =>
              \A k \in {KeyCandAll, KeyCand(muts[m].id), KeyTimeline(muts[m].id)} :
                  (cache[k].has /\ cache[k].data # QueryFn(k)) =>
                      (cache'[k].stale \/ cache'[k].fetch # "idle")]_vars

----------------------------------------------------------------------------
(* SpecDetail: the candidates page and the candidate detail page, with
   navigation between them; stages are changed with the detail page's
   buttons *)

NextDetail ==
    \/ \E stage \in StageSet : DetailStage(stage)
    \/ \E m \in MutIds : CandSteps(m)
    \/ \E m \in MutIds : DetailOnSuccess(m)
    \/ \E m \in MutIds : DetailOnError(m)
    \/ \E c \in CandIds : OpenCandidate(c)
    \/ BackToCandidates
    \/ \E k \in Keys : FetchServe(k)
    \/ \E k \in Keys : FetchDeliver(k)

SpecDetail == InitKanban /\ [][NextDetail]_vars

----------------------------------------------------------------------------
(* Spec: the jobs page; its useQuery(['jobs', 'active']) has started the
   first fetch.  Cards are archived, restored and dragged, tabs switched. *)

JobStatus == {"active", "archived"}

Init ==
    /\ \E statusOf \in [1..NumSeedJobs -> JobStatus] : jobs = SeedJobs(statusOf)
    /\ rh = [h \in ReorderIds |-> IdleFrame]
    /\ candidates = SeedCandidates(AllApplied)
    /\ timeline = SeedTimeline(AllApplied, NumCandidates)
    /\ notes = <<>>
    /\ now = 0
    /\ muts = [m \in MutIds |-> IdleMut]
    /\ cache = [k \in Keys |-> IF k = KeyJobs("active") THEN StartFetch(EmptyEntry) ELSE EmptyEntry]
    /\ ui = JobsUi

Next ==
    \/ \E i \in 1..Cardinality(JobIds) : Archive(i)
    \/ \E i, j \in 1..Cardinality(JobIds) : DragEnd(i, j)
    \/ \E tab \in JobStatus : SwitchTab(tab)
    \/ \E m \in MutIds : JobInjectError(m)
    \/ \E m \in MutIds : JobPatch(m)
    \/ \E m \in MutIds : JobOnSuccess(m)
    \/ \E m \in MutIds : ArchiveOnError(m)
    \/ \E m \in MutIds : ReorderOnError(m)
    \/ \E k \in Keys : FetchServe(k)
    \/ \E k \in Keys : FetchDeliver(k)

Spec == Init /\ [][Next]_vars

\* the step in which mutation m's onError runs
Fails(m) ==
    /\ muts[m].phase \in {"r500", "r404"}
    /\ muts'[m].phase = "error"

\* no mutation on m's cache entry was started after m
NoneStartedSince(m) ==
    \A n \in MutIds : n > m => (muts[n].phase = "idle" \/ muts[n].key # muts[m].key)

\* C2: when an optimistic mutation (archive, stage change) fails and no other
\* mutation on the same entry was started after its optimistic write, the
\* entry after the rollback equals the entry before the optimistic write.
C2_RollbackRestores ==
    [][\A m \in MutIds :
          (Fails(m) /\ muts[m].kind \in {"archive", "kanban", "detail"}
                    /\ NoneStartedSince(m)) =>
              /\ cache'[muts[m].key].has
              /\ cache'[muts[m].key].data = muts[m].ctx.data]_vars

\* the step in which the response of a fetch is written to entry k
Delivers(k) ==
    /\ cache[k].fetch = "replied"
    /\ cache'[k].fetch = "idle"
    /\ UNCHANGED <<muts, ui>>

\* mutation m is pending and entry k shows its optimistic value
OptimisticShown(m, k) ==
    /\ InFlight(m)
    /\ muts[m].key = k
    /\ muts[m].kind \in {"archive", "reorder", "kanban", "detail"}
    /\ cache[k].has
    /\ cache[k].data = muts[m].opt

\* C3: a fetch that was under way when a mutation wrote its optimistic value
\* to the same entry does not overwrite that value when its response arrives
\* (archive, stage change and drag-and-drop reorder alike).
C3_LogicalCancellation ==
    [][\A k \in Keys :
          (Delivers(k) /\ cache[k].raced /\ \E m \in MutIds : OptimisticShown(m, k)) =>
              cache'[k].data = cache[k].data]_vars

\* C4: when a mutation's error is surfaced (onError has run), its optimistic
\* value is no longer what its cache entry shows (archive, stage change and
\* reorder alike).
C4_RolledBackAtError ==
    [][\A m \in MutIds :
          (Fails(m) /\ muts[m].kind \in {"archive", "reorder", "kanban", "detail"}) =>
              ~(cache'[muts[m].key].has /\ cache'[muts[m].key].data = muts[m].opt)]_vars

----------------------------------------------------------------------------
(* SpecJobForm: the jobs page with the job form: jobs are created and
   edited, tabs switched *)

NextJobForm ==
    \/ CreateJob(<<"Q", "A">>)
    \/ \E i \in DOMAIN ShownJobs : EditJob(i, ShownJobs[i].title)
    \/ \E tab \in JobStatus : SwitchTab(tab)
    \/ \E m \in MutIds : JobInjectError(m)
    \/ \E m \in MutIds : JobPatch(m)
    \/ \E m \in MutIds : JobPost(m)
    \/ \E m \in MutIds : JobOnSuccess(m)
    \/ \E m \in MutIds : FormOnError(m)
    \/ \E k \in Keys : FetchServe(k)
    \/ \E k \in Keys : FetchDeliver(k)

SpecJobForm == Init /\ [][NextJobForm]_vars

NoReorderInFlight ==
    /\ \A h \in ReorderIds : ~RhActive(h)
    /\ \A m \in MutIds : ~(muts[m].kind = "reorder" /\ InFlight(m))

----------------------------------------------------------------------------
(* SpecNotes: the candidate detail page is shown and its NotesSection has
   just mounted: useQuery(['notes', id]) has started its first fetch *)

Loaded(d) == [EmptyEntry EXCEPT !.has = TRUE, !.data = d]

InitNotes ==
    /\ jobs = SeedJobs(AllActive)
    /\ rh = [h \in ReorderIds |-> IdleFrame]
    /\ candidates = SeedCandidates(AllApplied)
    /\ timeline = SeedTimeline(AllApplied, NumCandidates)
    /\ notes = <<>>
    /\ now = 0
    /\ muts = [m \in MutIds |-> IdleMut]
    /\ \E c \in CandIds :
          /\ ui = [JobsUi EXCEPT !.page = "candidate", !.id = c]
          /\ cache = [k \in Keys |->
                IF k = KeyNotes(c) THEN StartFetch(EmptyEntry)
                ELSE IF k \in {KeyCand(c), KeyTimeline(c)} THEN Loaded(QueryFn(k))
                ELSE EmptyEntry]

NextNotes ==
    \/ \E text \in NoteTexts : TypeNote(text)
    \/ SubmitNote
    \/ \E m \in MutIds : NoteInjectError(m)
    \/ \E m \in MutIds : NoteAdd(m)
    \/ \E m \in MutIds : NoteLog(m)
    \/ \E m \in MutIds : NoteOnSuccess(m)
    \/ \E k \in Keys : FetchServe(k)
    \/ \E k \in Keys : FetchDeliver(k)

SpecNotes == InitNotes /\ [][NextNotes]_vars

\* the step in which a callback of mutation m runs on a non-success answer
SettlesOnFailure(m) ==
    /\ muts[m].phase \in {"r500", "r404"}
    /\ muts'[m].phase \in {"success", "error"}

\* C5: a write answered with a non-success status (500, 404) ends in the
\* mutation's error path: the success path (success toast, invalidation,
\* reset of the input) does not run; adding a note included.
C5_NonSuccessIsFailure ==
    [][\A m \in MutIds :
          SettlesOnFailure(m) =>
              /\ muts'[m].phase = "error"
              /\ ui'.noteContent = ui.noteContent]_vars

----------------------------------------------------------------------------
(* SpecCandidatePage: the candidate detail page stays on screen; the stage *)
(* buttons and the NotesSection are used                                   *)

NextCandidatePage ==
    \/ \E stage \in StageSet : DetailStage(stage)
    \/ \E m \in MutIds : CandSteps(m)
    \/ \E m \in MutIds : DetailOnSuccess(m)
    \/ \E m \in MutIds : DetailOnError(m)
    \/ NextNotes

SpecCandidatePage == InitNotes /\ [][NextCandidatePage]_vars

\* C14: a write request is answered with the injected failure only straight
\* from its latency wait, and no step the request has taken until then (its
\* dispatch, the failure decision) changes a table of the store.
C14_FailureBeforePersistence ==
    [][\A m \in MutIds :
          /\ muts'[m].phase = "latency" => muts[m].phase \in {"idle", "latency"}
          /\ muts'[m].phase = "r500" => muts[m].phase \in {"latency", "r500"}
          /\ (muts'[m] # muts[m] /\ muts'[m].phase \in {"latency", "r500"}) =>
                UNCHANGED <<jobs, candidates, timeline, notes>>]_vars

\* a stage change and a note have both been answered with the injected
\* failure, and the store is as it was seeded
C14_Witness ==
    /\ \E m \in MutIds : muts[m].kind = "detail" /\ muts[m].phase = "r500"
    /\ \E m \in MutIds : muts[m].kind = "note" /\ muts[m].phase = "r500"
    /\ timeline = SeedTimeline(AllApplied, NumCandidates) /\ notes = <<>>

\* the events of candidate c added to db.timeline since the seeding
AddedStageChanges(c) ==
    LET added == SubSeq(timeline, Len(SeedTimeline(AllApplied, NumCandidates)) + 1,
                        Len(timeline))
    IN  SeqFilter(added, {e \in Range(added) :
                              e.candidateId = c /\ e.type = "stage_change"})

\* mutation m moved candidate c from applied to screen and has committed;
\* n, started after that, moves c to tech and has been answered with
\* success; no other stage change of c has reached the store
TwoSequentialMoves(m, n, c) ==
    /\ m < n
    /\ muts[m].kind = "detail" /\ muts[m].id = c
    /\ muts[m].seen = "applied" /\ muts[m].val = "screen" /\ muts[m].phase = "success"
    /\ muts[n].kind = "detail" /\ muts[n].id = c
    /\ muts[n].val = "tech" /\ muts[n].phase \in {"r200", "success"}
    /\ \A o \in MutIds \ {m, n} :
          muts[o].kind \in StageKinds =>
              muts[o].phase \in {"idle", "latency", "got", "r500", "r404", "error"}

\* C15: after two stage mutations of the detail page, applied -> screen and
\* then, started once the first has committed, screen -> tech, db.timeline
\* has gained exactly two stage_change entries of the candidate, with the
\* pairs (applied, screen) and (screen, tech) in that order, the second with
\* a strictly greater timestamp.
C15_SequentialStageHistory ==
    \A m, n \in MutIds, c \in CandIds :
        TwoSequentialMoves(m, n, c) =>
            LET added == AddedStageChanges(c)
            IN  /\ Len(added) = 2
                /\ added[1].fromStage = "applied" /\ added[1].toStage = "screen"
                /\ added[2].fromStage = "screen" /\ added[2].toStage = "tech"
                /\ added[2].createdAt > added[1].createdAt

C15_Witness ==
    \E m, n \in MutIds, c \in CandIds :
        /\ TwoSequentialMoves(m, n, c)
        /\ candidates[c].stage = "tech"

----------------------------------------------------------------------------
(* SpecApi: jobsApi.create, jobsApi.update and candidatesApi.create called *)
(* directly, with any arguments; the store is as seeded                    *)

MaxCandidatesCreated == 1

\* jobsApi.create(data): POST /api/jobs
ApiCreateJob(status, order) ==
    /\ CanCreate
    /\ \E m \in MutIds : muts[m].phase = "idle"
    /\ muts' = [muts EXCEPT ![FreeMut(muts)] =
          [IdleMut EXCEPT !.kind = "create", !.phase = "latency", !.method = "POST",
                          !.path = <<"api", "jobs">>, !.val = status, !.order = order]]
    /\ UNCHANGED <<jobs, rh, dbCandVars, now, cache, ui>>

\* jobsApi.update(id, { status }): PATCH /api/jobs/<id>
ApiUpdateJob(id, status) ==
    /\ \E m \in MutIds : muts[m].phase = "idle"
    /\ muts' = [muts EXCEPT ![FreeMut(muts)] =
          [IdleMut EXCEPT !.kind = "update", !.phase = "latency", !.method = "PATCH",
                          !.id = id, !.path = <<"api", "jobs", ToString(id)>>,
                          !.val = status]]
    /\ UNCHANGED <<jobs, rh, dbCandVars, now, cache, ui>>

\* candidatesApi.create(data) with a stage among the data: POST /api/candidates
ApiCreateCandidate(stage) ==
    /\ Cardinality(DOMAIN candidates)
          + Cardinality({m \in MutIds : muts[m].kind = "createCandidate" /\ InFlight(m)})
             < NumCandidates + MaxCandidatesCreated
    /\ \E m \in MutIds : muts[m].phase = "idle"
    /\ muts' = [muts EXCEPT ![FreeMut(muts)] =
          [IdleMut EXCEPT !.kind = "createCandidate", !.phase = "latency",
                          !.method = "POST", !.path = <<"api", "candidates">>,
                          !.val = stage]]
    /\ UNCHANGED <<jobs, rh, dbCandVars, now, cache, ui>>

\* POST /api/candidates: if (shouldSimulateError()) return 500
CandPostInjectError(m) ==
    /\ muts[m].kind = "createCandidate" /\ muts[m].phase = "latency"
    /\ muts' = [muts EXCEPT ![m].phase = "r500"]
    /\ now' = Tick(now)
    /\ UNCHANGED <<jobs, rh, dbCandVars, cache, ui>>

\* the stage the resolver stores, whatever the body says
CreatedStage(body) == "applied"

\* candidate = { ...body, id, stage: 'applied', appliedAt, updatedAt };
\* await db.candidates.add(candidate)
CandPostAdd(m) ==
    /\ muts[m].kind = "createCandidate" /\ muts[m].phase = "latency"
    /\ LET id == Cardinality(DOMAIN candidates) + 1
       IN  /\ candidates' =
                 [c \in DOMAIN candidates \cup {id} |->
                     IF c \in DOMAIN candidates THEN candidates[c]
                     ELSE [stage |-> CreatedStage(muts[m].val), updatedAt |-> Tick(now)]]
           /\ muts' = [muts EXCEPT ![m].phase = "added", ![m].id = id]
    /\ now' = Tick(now)
    /\ UNCHANGED <<jobs, rh, timeline, notes, cache, ui>>

\* await db.timeline.add({ type: 'stage_change', toStage: 'applied', .. });
\* return { data: candidate }
CandPostLog(m) ==
    /\ muts[m].kind = "createCandidate" /\ muts[m].phase = "added"
    /\ timeline' = Append(timeline, [candidateId |-> muts[m].id, type |-> "stage_change",
                                     fromStage |-> "", toStage |-> "applied",
                                     createdAt |-> now])
    /\ muts' = [muts EXCEPT ![m].phase = "r200"]
    /\ UNCHANGED <<jobs, rh, candidates, notes, now, cache, ui>>

\* fetchApi: if (!response.ok) throw; return response.json()
ApiSettle(m) ==
    /\ muts[m].phase \in {"r200", "r500", "r404"}
    /\ muts' = [muts EXCEPT ![m].phase = IF @ = "r200" THEN "success" ELSE "error"]
    /\ UNCHANGED <<jobs, rh, dbCandVars, now, cache, ui>>

NextApi ==
    \/ \E status \in JobStatus, order \in 0..NumSeedJobs : ApiCreateJob(status, order)
    \/ \E id \in JobIds, status \in JobStatus : ApiUpdateJob(id, status)
    \/ \E stage \in StageSet : ApiCreateCandidate(stage)
    \/ \E m \in MutIds : JobInjectError(m)
    \/ \E m \in MutIds : JobPatch(m)
    \/ \E m \in MutIds : JobPost(m)
    \/ \E m \in MutIds : CandPostInjectError(m)
    \/ \E m \in MutIds : CandPostAdd(m)
    \/ \E m \in MutIds : CandPostLog(m)
    \/ \E m \in MutIds : ApiSettle(m)

SpecApi == InitReorder /\ [][NextApi]_vars

\* the step in which request m is answered with success
Answered(m) == muts[m].phase # "r200" /\ muts'[m].phase = "r200"

\* C16: when a create request of jobs or candidates is answered with
\* success, the record the store holds under the returned id (what
\* GET /api/jobs/:id and GET /api/candidates/:id return) has every supplied
\* field with the supplied value; only id and timestamps are generated.
C16_CreateGetRoundTrip ==
    [][\A m \in MutIds :
          Answered(m) =>
              /\ muts[m].kind = "create" =>
                    /\ muts'[m].id \in DOMAIN jobs'
                    /\ jobs'[muts'[m].id].status = muts[m].val
                    /\ jobs'[muts'[m].id].order = muts[m].order
              /\ muts[m].kind = "createCandidate" =>
                    /\ muts'[m].id \in DOMAIN candidates'
                    /\ GetCandidate(candidates', muts'[m].id)[1].stage = muts[m].val]_vars

\* the step in which the store write of partial update m completes
PatchCommits(m) ==
    /\ muts[m].kind = "update"
    /\ muts[m].phase = "latency" /\ muts'[m].phase = "r200"

\* C18: the step that completes the store write of a partial update of a
\* job's status leaves the status at that request's value, and the status
\* changes in no other step: after two successful updates of the same field
\* the store holds the value of the one whose write completed last.
C18_LastWriteWins ==
    [][\A id \in DOMAIN jobs :
          /\ \A m \in MutIds :
                (PatchCommits(m) /\ muts[m].id = id) => jobs'[id].status = muts[m].val
          /\ jobs'[id].status # jobs[id].status =>
                \E m \in MutIds : PatchCommits(m) /\ muts[m].id = id]_vars

\* two updates of one job with different values have both succeeded
C18_Witness ==
    \E m, n \in MutIds :
        /\ m # n
        /\ muts[m].kind = "update" /\ muts[n].kind = "update"
        /\ muts[m].phase = "success" /\ muts[n].phase = "success"
        /\ muts[m].id = muts[n].id /\ muts[m].id \in DOMAIN jobs
        /\ muts[m].val = "archived" /\ muts[n].val = "active"
        /\ jobs[muts[m].id].status = "archived"

\* C19: a partial update of a job is answered with success only if the store
\* holds a record under the id it is addressed to.
C19_MissingIdIsAnError ==
    [][\A m \in MutIds :
          (Answered(m) /\ muts[m].kind = "update") => muts[m].id \in DOMAIN jobs]_vars

----------------------------------------------------------------------------
(* SpecSwr: the dashboard, the jobs page and the assessments page, which all *)
(* read ['jobs', 'active'], are visited in turn while time passes            *)

TimeStep == 10000

Pages == {"dashboard", "jobs", "assessments"}

\* the keys of the useQuery calls a page makes when it mounts
PageKeys(page) ==
    IF page = "dashboard" THEN {KeyJobs("active"), KeyCandAll} ELSE {KeyJobs("active")}

\* <Link to=..>: the page mounts and its observers read their entries
Navigate(page) ==
    /\ ui.page \in Pages
    /\ page # ui.page
    /\ ui' = [ui EXCEPT !.page = page, !.activeTab = "active"]
    /\ muts' = Unmounted(muts)
    /\ cache' = Mount(cache, PageKeys(page))
    /\ UNCHANGED <<jobs, rh, dbCandVars, now>>

\* TimeStep ms go by: the data of every entry gets older
TimePasses ==
    /\ \E k \in Keys : cache[k].has /\ cache[k].age < StaleTime
    /\ cache' = [k \in Keys |->
                    IF cache[k].has THEN [cache[k] EXCEPT !.age = Min(@ + TimeStep, StaleTime)]
                    ELSE cache[k]]
    /\ UNCHANGED <<jobs, rh, dbCandVars, now, muts, ui>>

InitSwr ==
    /\ jobs = SeedJobs(AllActive)
    /\ rh = [h \in ReorderIds |-> IdleFrame]
    /\ candidates = SeedCandidates(AllApplied)
    /\ timeline = SeedTimeline(AllApplied, NumCandidates)
    /\ notes = <<>>
    /\ now = 0
    /\ muts = [m \in MutIds |-> IdleMut]
    /\ ui = [JobsUi EXCEPT !.page = "dashboard"]
    /\ cache = Mount([k \in Keys |-> EmptyEntry], PageKeys("dashboard"))

NextSwr ==
    \/ \E page \in Pages : Navigate(page)
    \/ TimePasses
    \/ \E k \in Keys : FetchServe(k)
    \/ \E k \in Keys : FetchDeliver(k)

SpecSwr == InitSwr /\ [][NextSwr]_vars

\* the step in which a page mounts and reads key k
Reads(k) == ui'.page # ui.page /\ k \in PageKeys(ui'.page)

\* C17: a page that mounts and reads an entry whose data is younger than
\* 30000 ms starts no transport call; one that reads an older entry keeps
\* the old data on screen and starts one fetch of the key, unless a fetch of
\* the key is already under way (another reader started it), which it joins.
C17_StaleWhileRevalidate ==
    [][\A k \in Keys :
          (Reads(k) /\ cache[k].has) =>
              /\ cache'[k].has /\ cache'[k].data = cache[k].data
              /\ cache[k].age < StaleTime => cache'[k] = cache[k]
              /\ cache[k].age >= StaleTime =>
                    IF cache[k].fetch = "idle"
                    THEN cache'[k].fetch = "latency"
                    ELSE cache'[k] = cache[k]]_vars

\* the jobs page has read ['jobs', 'active'] with data 30000 ms old: the old
\* data is still held and the key's background fetch is under way
C17_Witness ==
    /\ ui.page = "jobs"
    /\ cache[KeyJobs("active")].has
    /\ cache[KeyJobs("active")].age = StaleTime
    /\ cache[KeyJobs("active")].fetch = "replied"

----------------------------------------------------------------------------
(* SpecSlug: the jobs page with the job form, Active tab: jobs are created *)
(* and edited with the titles of FormTitles                                *)

NextSlug ==
    \/ \E title \in FormTitles : CreateJob(title)
    \/ \E i \in DOMAIN ShownJobs, title \in FormTitles : EditJob(i, title)
    \/ \E m \in MutIds : JobInjectError(m)
    \/ \E m \in MutIds : JobPatch(m)
    \/ \E m \in MutIds : JobPost(m)
    \/ \E m \in MutIds : JobOnSuccess(m)
    \/ \E m \in MutIds : FormOnError(m)
    \/ \E k \in Keys : FetchServe(k)
    \/ \E k \in Keys : FetchDeliver(k)

SpecSlug == Init /\ [][NextSlug]_vars

\* C20: whatever jobs have been created and edited through the job form, no
\* two jobs of db.jobs have the same slug.
C20_UniqueSlugs ==
    \A a, b \in DOMAIN jobs : jobs[a].slug = jobs[b].slug => a = b

----------------------------------------------------------------------------
(* SpecSeed: the application is loaded on a browser whose database is      *)
(* empty, reloaded at any time, and reorder requests are served in between *)

InitSeed ==
    /\ jobs = <<>>
    /\ rh = [h \in ReorderIds |-> IdleFrame]
    /\ candidates = <<>>
    /\ timeline = <<>>
    /\ notes = <<>>
    /\ now = 0
    /\ cache = [k \in Keys |-> EmptyEntry]
    /\ muts = [m \in MutIds |-> IdleMut]
    /\ ui = JobsUi

\* the application serves requests once initializeApp has rendered it
NextSeed ==
    \/ Reload /\ UNCHANGED <<now, clientVars>>
    \/ Cardinality(DOMAIN jobs) > 0 /\ NextReorder

SpecSeed == InitSeed /\ [][NextSeed]_vars

\* C21: a load on an empty db.jobs leaves the seeded number of jobs with the
\* orders exactly {0..N-1} (N is 25 in the program, NumSeedJobs here); a
\* load on a db.jobs that holds a job leaves the table as it is.
C21_SeedsExactlyWhenEmpty ==
    [][Reload =>
          IF Cardinality(DOMAIN jobs) = 0
          THEN /\ Cardinality(DOMAIN jobs') = NumSeedJobs
               /\ {jobs'[id].order : id \in DOMAIN jobs'} = 0..(NumSeedJobs - 1)
          ELSE jobs' = jobs]_vars

\* the store has been seeded, a reorder has changed the seeded orders and no
\* resolver is running
C21_Witness ==
    /\ Cardinality(DOMAIN jobs) = NumSeedJobs
    /\ \E id \in DOMAIN jobs : jobs[id].order # id - 1
    /\ Dense(jobs)
    /\ \A h \in ReorderIds : rh[h].pc = "idle"

----------------------------------------------------------------------------
(* SpecReorderConcurrent: reorder requests with valid arguments, two       *)
(* different positions, arrive at any time; the steps of the resolvers     *)
(* interleave at every await                                               *)

NextReorderConcurrent ==
    \/ \E h \in ReorderIds, from \in ValidOrders, to \in ValidOrders :
          /\ from # to
          /\ ReorderArrive(h, from, to)
          /\ UNCHANGED <<dbCandVars, now, clientVars>>
    \/ \E h \in ReorderIds : ReorderSteps(h) /\ UNCHANGED <<dbCandVars, now, clientVars>>

SpecReorderConcurrent == InitReorder /\ [][NextReorderConcurrent]_vars

\* C22: whenever no reorder request is being processed, also after two
\* requests whose resolver steps interleaved, the orders of db.jobs are
\* exactly {0..N-1}, without duplicates or gaps.
C22_DenseAfterOverlappingReorders ==
    (\A h \in ReorderIds : ~RhActive(h)) => Dense(jobs)

----------------------------------------------------------------------------
(* Spec, the jobs page: where the client's reorder request is resolved *)

\* C23: when the reorder request of a drag (fromOrder # toOrder, both orders
\* of stored jobs) is answered with success, the job that had order
\* fromOrder when the request was processed has order toOrder in the store.
C23_ReorderDispatch ==
    [][\A m \in MutIds :
          (Answered(m) /\ muts[m].kind = "reorder" /\ muts[m].from # muts[m].to) =>
              \A id \in DOMAIN jobs :
                  jobs[id].order = muts[m].from => jobs'[id].order = muts[m].to]_vars

----------------------------------------------------------------------------
(* SpecBuilder: AssessmentBuilderPage for a new assessment: sections are *)
(* added, deleted and dragged                                            *)

MaxSectionsAdded == 4

\* addSection: a new section with order sections.length goes to the end
AddSection ==
    /\ ui.page = "builder"
    /\ ui.sectionsAdded < MaxSectionsAdded
    /\ ui' = [ui EXCEPT !.sectionsAdded = @ + 1,
                        !.sections = Append(@, [id |-> ui.sectionsAdded + 1,
                                                order |-> Len(ui.sections)])]
    /\ UNCHANGED <<jobs, rh, dbCandVars, now, cache, muts>>

\* deleteSection: sections.filter(s => s.id !== sectionId)
DeleteSection(id) ==
    /\ ui.page = "builder"
    /\ \E k \in DOMAIN ui.sections : ui.sections[k].id = id
    /\ ui' = [ui EXCEPT !.sections = SeqFilter(@, {x \in Range(@) : x.id # id})]
    /\ UNCHANGED <<jobs, rh, dbCandVars, now, cache, muts>>

\* .map((item, index) => ({ ...item, order: index }))
Reordered(items) == [k \in DOMAIN items |-> [items[k] EXCEPT !.order = k - 1]]

\* handleSectionDragEnd: arrayMove(items, oldIndex, newIndex), then every
\* section gets its index as order
SectionDragEnd(i, j) ==
    /\ ui.page = "builder"
    /\ i \in DOMAIN ui.sections /\ j \in DOMAIN ui.sections /\ i # j
    /\ ui' = [ui EXCEPT !.sections = Reordered(ArrayMove(@, i, j))]
    /\ UNCHANGED <<jobs, rh, dbCandVars, now, cache, muts>>

InitBuilder ==
    /\ jobs = SeedJobs(AllActive)
    /\ rh = [h \in ReorderIds |-> IdleFrame]
    /\ candidates = SeedCandidates(AllApplied)
    /\ timeline = SeedTimeline(AllApplied, NumCandidates)
    /\ notes = <<>>
    /\ now = 0
    /\ cache = [k \in Keys |-> EmptyEntry]
    /\ muts = [m \in MutIds |-> IdleMut]
    /\ ui = [JobsUi EXCEPT !.page = "builder"]

NextBuilder ==
    \/ AddSection
    \/ \E id \in 1..MaxSectionsAdded : DeleteSection(id)
    \/ \E i, j \in 1..MaxSectionsAdded : SectionDragEnd(i, j)

SpecBuilder == InitBuilder /\ [][NextBuilder]_vars

\* C24: on the builder page the order values of the sections are always
\* exactly {0..n-1}, n the number of sections, no value twice.
C24_SectionOrderDense ==
    LET ss == ui.sections
    IN  /\ {ss[k].order : k \in DOMAIN ss} = 0..(Len(ss) - 1)
        /\ \A k, l \in DOMAIN ss : ss[k].order = ss[l].order => k = l

----------------------------------------------------------------------------
(* SpecKanban: the timeline of a candidate against the stored stage *)

\* the stage_change events of candidate c that no other one was created after
LatestStageChanges(c) ==
    LET idx == {i \in DOMAIN timeline :
                   timeline[i].candidateId = c /\ timeline[i].type = "stage_change"}
    IN  {i \in idx : \A j \in idx : timeline[j].createdAt <= timeline[i].createdAt}

\* C25: when no stage update is in flight, the toStage of the candidate's most
\* recently created stage_change event is the candidate's stage in the store
\* (of two events created in the same instant either one counts), also after
\* two stage updates of one candidate were processed at the same time.
C25_TimelineAgreesWithStage ==
    (\A m \in MutIds : ~InFlight(m)) =>
        \A c \in DOMAIN candidates :
            LatestStageChanges(c) # {} =>
                \E i \in LatestStageChanges(c) : timeline[i].toStage = candidates[c].stage

----------------------------------------------------------------------------
(* Spec, the jobs page: the key a failed archive mutation rolls back *)

\* the step in which the onError of archive mutation m runs
ArchiveFails(m) ==
    /\ muts[m].kind = "archive"
    /\ Fails(m)

\* C26: when an archive mutation fails, its snapshot is written back to the
\* key ['jobs', tab] it was taken from and the value of no other key changes,
\* also when the tab was switched while the request was in flight.
C26_RollbackTargetsSnapshottedKey ==
    [][\A m \in MutIds :
          ArchiveFails(m) =>
              /\ cache'[muts[m].key].has = muts[m].ctx.has
              /\ cache'[muts[m].key].data = muts[m].ctx.data
              /\ \A k \in Keys \ {muts[m].key} :
                    /\ cache'[k].has = cache[k].has
                    /\ cache'[k].data = cache[k].data]_vars

----------------------------------------------------------------------------
(* SpecSearch: the jobs page with its search box: cards are dragged while a
   search text filters the list *)

SearchQueries == {<<>>, <<"D">>, <<"e">>}

\* Input onChange: setSearchQuery(e.target.value)
SetSearchQuery(q) ==
    /\ ui.page = "jobs"
    /\ q # ui.searchQuery
    /\ ui' = [ui EXCEPT !.searchQuery = q]
    /\ UNCHANGED <<jobs, rh, dbCandVars, now, cache, muts>>

NextSearch ==
    \/ \E q \in SearchQueries : SetSearchQuery(q)
    \/ \E i, j \in 1..Cardinality(JobIds) : DragEnd(i, j)
    \/ \E m \in MutIds : JobInjectError(m)
    \/ \E m \in MutIds : JobPatch(m)
    \/ \E m \in MutIds : JobOnSuccess(m)
    \/ \E m \in MutIds : ReorderOnError(m)
    \/ \E k \in Keys : FetchServe(k)
    \/ \E k \in Keys : FetchDeliver(k)

SpecSearch == Init /\ [][NextSearch]_vars

\* the step in which handleDragEnd starts reorder mutation m
Drags(m) ==
    /\ muts[m].phase = "idle"
    /\ muts'[m].kind = "reorder"
    /\ muts'[m].phase = "latency"

JobIdsOf(data) == {data[k].id : k \in DOMAIN data}

\* C27: the optimistic write of handleDragEnd leaves in ['jobs', activeTab]
\* the same set of jobs as before the drag, whatever the search box holds.
C27_DragOnlyPermutes ==
    [][\A m \in MutIds :
          Drags(m) =>
              JobIdsOf(cache'[muts'[m].key].data) = JobIdsOf(cache[muts'[m].key].data)]_vars

----------------------------------------------------------------------------
(* SpecJobForm: what an edit through the form leaves of the job's status *)

\* C28: when an edit of a job through the form is answered with success, the
\* status of the job in the store is the status it had before the edit: an
\* archived job stays archived.
C28_EditKeepsStatus ==
    [][\A m \in MutIds :
          (Answered(m) /\ muts[m].kind = "update" /\ muts[m].id \in DOMAIN jobs) =>
              jobs'[muts[m].id].status = jobs[muts[m].id].status]_vars

----------------------------------------------------------------------------
(* SpecNotes: the candidate's timeline entry when a note has been added *)

\* the step in which the onSuccess of note mutation m runs on a 2xx answer
NoteCommits(m) ==
    /\ muts[m].kind = "note"
    /\ muts[m].phase = "r200"
    /\ muts'[m].phase = "success"

\* C29: when a note has been added with success (a 'note' event is in the
\* candidate's timeline), the entry ['candidate-timeline', id], which the
\* detail page shows, is marked stale or is being refetched.
C29_NoteInvalidatesTimeline ==
    [][\A m \in MutIds :
          NoteCommits(m) =>
              \/ cache'[KeyTimeline(muts[m].id)].stale
              \/ cache'[KeyTimeline(muts[m].id)].fetch # "idle"]_vars

----------------------------------------------------------------------------
(* SpecForm: InteractiveAssessmentForm on the assessment taker page: answers
   are entered and the form is submitted.  The questions of all sections are
   one sequence, in the order sections.forEach / questions.forEach visits
   them.  Answers are sequences of characters *)

NumQuestions == 2
MaxSubmits == 2

QuestionIds == 1..NumQuestions

\* answers[question.id] of a question never answered
NoAnswer == <<"undefined">>

\* question.conditionalLogic and question.validation left out
NoLogic == [questionId |-> 0, answer |-> <<>>]
NoValidation == [hasMin |-> FALSE, min |-> 0, hasMax |-> FALSE, max |-> 0, maxLength |-> 0]
Limits == [hasMin |-> TRUE, min |-> 1, hasMax |-> TRUE, max |-> 2, maxLength |-> 1]

\* the forms of the model: a choice question, then a numeric or short-text
\* question that may depend on the first one's answer, then long-text
\* questions
FormQuestions ==
    {[k \in QuestionIds |->
        IF k = 1
        THEN [id |-> 1, type |-> "single-choice", required |-> r1,
              validation |-> NoValidation, conditionalLogic |-> NoLogic]
        ELSE IF k = 2
        THEN [id |-> 2, type |-> t2, required |-> r2, validation |-> v2,
              conditionalLogic |-> l2]
        ELSE [id |-> k, type |-> "long-text", required |-> FALSE,
              validation |-> NoValidation, conditionalLogic |-> NoLogic]] :
        r1 \in BOOLEAN, r2 \in BOOLEAN, t2 \in {"numeric", "short-text"},
        v2 \in {NoValidation, Limits},
        l2 \in {NoLogic, [questionId |-> 1, answer |-> <<"y">>]}}

\* what QuestionInput can hand to onChange: an option of the radio group, the
\* text of a number input (digits or ''), a text
InputValues(q) ==
    IF q.type = "single-choice" THEN {<<"y">>, <<"n">>}
    ELSE IF q.type = "numeric" THEN {<<>>, <<"0">>, <<"1">>, <<"3">>}
    ELSE {<<>>, <<"a">>, <<"a", "b">>}

\* a form on which every question is shown
VisibleQuestionsAll(qs, answers) == {qs[k].id : k \in DOMAIN qs}

\* the visibility effect: a question without conditionalLogic is visible, one
\* with showIf when the answer of the question it names is the one named
VisibleQuestions(qs, answers) ==
    {qs[k].id : k \in {k \in DOMAIN qs :
        \/ qs[k].conditionalLogic = NoLogic
        \/ /\ qs[k].conditionalLogic.questionId \in DOMAIN answers
           /\ answers[qs[k].conditionalLogic.questionId] = qs[k].conditionalLogic.answer}}

DigitValue == ("0" :> 0) @@ ("1" :> 1) @@ ("2" :> 2) @@ ("3" :> 3)

\* isNaN(Number(answer)) of a non-empty text
IsNaN(answer) == \E i \in DOMAIN answer : answer[i] \notin DOMAIN DigitValue

\* Number(answer) of a text of digits
RECURSIVE NumberOf(_)
NumberOf(answer) ==
    IF answer = <<>> THEN 0
    ELSE 10 * NumberOf(SubSeq(answer, 1, Len(answer) - 1)) + DigitValue[answer[Len(answer)]]

\* validateQuestion: the error message, "" for null
ValidateQuestion(q, answers) ==
    LET answer == answers[q.id]
    IN  IF q.required /\ answer \in {NoAnswer, <<>>} THEN "This field is required"
        ELSE IF q.type = "numeric" /\ answer \notin {NoAnswer, <<>>}
        THEN IF IsNaN(answer) THEN "Must be a valid number"
             ELSE IF q.validation.hasMin /\ NumberOf(answer) < q.validation.min
             THEN "Must be at least " \o ToString(q.validation.min)
             ELSE IF q.validation.hasMax /\ NumberOf(answer) > q.validation.max
             THEN "Must be at most " \o ToString(q.validation.max)
             ELSE ""
        ELSE IF /\ q.type = "short-text" /\ answer \notin {NoAnswer, <<>>}
                /\ q.validation.maxLength # 0
                /\ Len(answer) > q.validation.maxLength
        THEN "Must be at most " \o ToString(q.validation.maxLength) \o " characters"
        ELSE ""

\* updateAnswer(questionId, value) from the input of a question on screen: the
\* answer is stored, the question's error is cleared, and the effect on
\* [sections, answers] recomputes visibleQuestions
UpdateAnswer(id, value) ==
    /\ ui.page = "assessment"
    /\ id \in ui.visibleQuestions
    /\ value \in InputValues(ui.questions[id])
    /\ value # ui.answers[id]
    /\ LET answers == [ui.answers EXCEPT ![id] = value]
       IN  ui' = [ui EXCEPT !.answers = answers,
                            !.errors = [@ EXCEPT ![id] = ""],
                            !.visibleQuestions = VisibleQuestions(ui.questions, answers)]
    /\ UNCHANGED <<jobs, rh, dbCandVars, now, cache, muts>>

\* handleSubmit: every visible question is validated, the messages are shown,
\* and onSubmit(answers) is invoked when there is none
HandleSubmit ==
    /\ ui.page = "assessment"
    /\ ui.submits < MaxSubmits
    /\ LET newErrors == [id \in QuestionIds |->
                            IF id \in ui.visibleQuestions
                            THEN ValidateQuestion(ui.questions[id], ui.answers) ELSE ""]
       IN  ui' = [ui EXCEPT !.errors = newErrors,
                            !.submits = IF \A id \in QuestionIds : newErrors[id] = ""
                                        THEN @ + 1 ELSE @]
    /\ UNCHANGED <<jobs, rh, dbCandVars, now, cache, muts>>

InitForm ==
    /\ jobs = SeedJobs(AllActive)
    /\ rh = [h \in ReorderIds |-> IdleFrame]
    /\ candidates = SeedCandidates(AllApplied)
    /\ timeline = SeedTimeline(AllApplied, NumCandidates)
    /\ notes = <<>>
    /\ now = 0
    /\ cache = [k \in Keys |-> EmptyEntry]
    /\ muts = [m \in MutIds |-> IdleMut]
    /\ \E qs \in FormQuestions :
          LET answers == [id \in QuestionIds |-> NoAnswer]
          IN  ui = [JobsUi EXCEPT !.page = "assessment", !.questions = qs,
                                  !.answers = answers,
                                  !.visibleQuestions = VisibleQuestions(qs, answers),
                                  !.errors = [id \in QuestionIds |-> ""]]

NextForm ==
    \/ \E id \in QuestionIds, value \in UNION {InputValues(q) : q \in UNION {Range(qs) : qs \in FormQuestions}} :
          UpdateAnswer(id, value)
    \/ HandleSubmit

SpecForm == InitForm /\ [][NextForm]_vars

\* the question is on screen: it has no showIf, or the question its showIf
\* names has the answer named
Shown(q) ==
    \/ q.conditionalLogic = NoLogic
    \/ ui.answers[q.conditionalLogic.questionId] = q.conditionalLogic.answer

AnsweredQuestion(q) == ui.answers[q.id] \notin {NoAnswer, <<>>}

\* the answer satisfies the question's rules: required, min and max of a
\* numeric question, maximum length of a short text
PassesValidation(q) ==
    /\ q.required => AnsweredQuestion(q)
    /\ (q.type = "numeric" /\ AnsweredQuestion(q)) =>
          /\ q.validation.hasMin => NumberOf(ui.answers[q.id]) >= q.validation.min
          /\ q.validation.hasMax => NumberOf(ui.answers[q.id]) <= q.validation.max
    /\ (q.type = "short-text" /\ AnsweredQuestion(q) /\ q.validation.maxLength # 0) =>
          Len(ui.answers[q.id]) <= q.validation.maxLength

\* C30: a press on Submit invokes onSubmit exactly when every question on
\* screen passes validation; a question hidden by its showIf is not validated
\* and does not block the submission, required or not; and onSubmit is
\* invoked by nothing else.
C30_SubmitIffVisibleValid ==
    [][/\ HandleSubmit =>
             ((ui'.submits = ui.submits + 1) <=>
                 \A k \in DOMAIN ui.questions :
                     Shown(ui.questions[k]) => PassesValidation(ui.questions[k]))
       /\ ui'.submits # ui.submits => HandleSubmit]_vars

\* the form was submitted while a required question hidden by its showIf had
\* no answer
C30_Witness ==
    /\ ui.page = "assessment"
    /\ ui.submits > 0
    /\ \A id \in QuestionIds : ui.errors[id] = ""
    /\ \E k \in DOMAIN ui.questions :
          /\ ui.questions[k].required
          /\ ~Shown(ui.questions[k])
          /\ ui.answers[ui.questions[k].id] = NoAnswer

====
